---- MODULE Spec2Model ----
(***************************************************************************)
(* Paket-Konfigurator (streamlit_app.py): catalog loading with price-column *)
(* detection, the per-run script (sidebar, catalog table, selection,        *)
(* package summary, export, offer text, admin upload) and the process-wide  *)
(* load_data cache.                                                         *)
(*                                                                          *)
(* Text is a sequence of one-character strings, so that strip(), lower()    *)
(* and the substring test `k in s` are computed, not assumed.               *)
(* Money is exact: every amount is an integer number of 1/Fine cent, which  *)
(* represents each product with a half-percent discount and an integer VAT  *)
(* rate without remainder.  Binary floating-point rounding error of the     *)
(* Python floats is not represented.                                        *)
(***************************************************************************)
EXTENDS Integers, Sequences, FiniteSets, TLC

VARIABLES
  disk,               \* path -> file content (the spreadsheets on disk)
  cache,              \* st.cache_data entry of load_data()
  mntWritable,        \* environment: can /mnt/data/Miete_uploaded.xlsx be opened for writing
  writerHasSave,      \* environment: does the installed pandas still have ExcelWriter.save()
  pc,                 \* position of the script run
  data_load,          \* line 41
  df, name_col, price_col,            \* lines 43-48
  mwst_pct, discount_pct,             \* lines 56, 58 (discount_pct in half percents)
  search, display_df,                 \* lines 64-72
  selected, qty,                      \* lines 76, 91
  package_lines, total_net,           \* lines 80-95
  package_df, table,                  \* lines 100-106
  net_sum, discount_amount, net_after_discount, vat_amount, gross_total, \* lines 108-112
  markdown,                           \* lines 114-119: the summary lines written to the page
  export_df, offer_text,              \* lines 130-155
  uploaded,                           \* line 162
  notices,                            \* st.error / st.warning / st.info of the main page
  sidebar                             \* st.sidebar.success / markdown / error of the upload

vars == <<disk, cache, mntWritable, writerHasSave, pc, data_load, df, name_col,
          price_col, mwst_pct, discount_pct, search, display_df, selected, qty,
          package_lines, total_net, package_df, table, net_sum, discount_amount,
          net_after_discount, vat_amount, gross_total, markdown, export_df,
          offer_text, uploaded, notices, sidebar>>

-----------------------------------------------------------------------------
(* Bounds *)

MaxCols == 3
MaxRows == 1
MaxQty == 3

-----------------------------------------------------------------------------
(* Text *)

Min(S) == CHOOSE x \in S : \A y \in S : x <= y
Max(S) == CHOOSE x \in S : \A y \in S : x >= y

\* str.lower(), on the letters that occur in the headers and names used here
LowerChar(c) ==
  CASE c = "A" -> "a" [] c = "C" -> "c" [] c = "E" -> "e" [] c = "I" -> "i"
    [] c = "K" -> "k"
    [] c = "M" -> "m" [] c = "P" -> "p" [] c = "S" -> "s" [] c = "T" -> "t"
    [] c = "Ü" -> "ü" [] OTHER -> c

Lower(s) == [i \in 1..Len(s) |-> LowerChar(s[i])]

\* str.strip()
Strip(s) ==
  LET keep == {i \in 1..Len(s) : s[i] # " "}
  IN  IF keep = {} THEN <<>> ELSE SubSeq(s, Min(keep), Max(keep))

\* k in s
Contains(s, k) ==
  \E i \in 1..(Len(s) - Len(k) + 1) : \A j \in 1..Len(k) : s[i + j - 1] = k[j]

-----------------------------------------------------------------------------
(* Cells, spreadsheets, data frames *)

Num(v) == [k |-> "num", v |-> v, s |-> <<>>]
Str(s) == [k |-> "str", v |-> 0, s |-> s]
NaN == [k |-> "nan", v |-> 0, s |-> <<>>]

Sheet(cols, rows) == [ok |-> TRUE, cols |-> cols, rows |-> rows]
\* a file pd.read_excel() raises on: missing, corrupt, not a workbook
Unreadable == [ok |-> FALSE, cols |-> <<>>, rows |-> <<>>]

EmptyDF == [cols |-> <<>>, rows |-> <<>>]

\* the value of st.sidebar.file_uploader: None, or the uploaded file
NoUpload == [present |-> FALSE, file |-> Unreadable]
Upload(f) == [present |-> TRUE, file |-> f]

\* only a frame without columns counts as empty
DfEmpty_ColsOnly(d) == Len(d.cols) = 0

\* DataFrame.empty: some axis has length 0
DfEmpty(d) == Len(d.cols) = 0 \/ Len(d.rows) = 0

None == 0

\* the upload overwrites the catalog file itself
UploadPath_Main == "Miete.xlsx"

LoadPath == "Miete.xlsx"
UploadPath == "/mnt/data/Miete_uploaded.xlsx"

-----------------------------------------------------------------------------
(* load_data *)

PctDen == 100
HalfSteps == 2
\* the number of money units in one cent
Fine == PctDen * PctDen * HalfSteps

Keywords == << <<"p","r","o">>, <<"s","t","ü","c","k">>, <<"s","e","t">>, <<"€">> >>

\* line 29
HasKeyword(c) ==
  LET lower == Lower(c)
  IN  \E n \in 1..Len(Keywords) : Contains(lower, Keywords[n])

\* the loop without its break: the last matching column wins
ScanColumns_NoBreak(cols, i) ==
  LET hits == {j \in i..Len(cols) : HasKeyword(cols[j])}
  IN  IF hits = {} THEN None ELSE Max(hits)

\* lines 27-31: the for loop with its break, from column i on
RECURSIVE ScanColumns(_, _)
ScanColumns(cols, i) ==
  IF i > Len(cols) THEN None
  ELSE IF HasKeyword(cols[i]) THEN i
  ELSE ScanColumns(cols, i + 1)

\* lines 26-33
DetectPriceCol(cols) ==
  LET found == ScanColumns(cols, 1)
  IN  IF found = None /\ Len(cols) >= 2 THEN Len(cols) ELSE found

\* line 35
NameCol(cols) == IF Len(cols) > 0 THEN 1 ELSE None

Digits == <<"0","1","2","3","4","5","6","7","8","9">>
DigitValue(c) == (CHOOSE n \in 1..10 : Digits[n] = c) - 1
IsDigit(c) == \E n \in 1..10 : Digits[n] = c

RECURSIVE DecimalValue(_)
DecimalValue(s) ==
  IF Len(s) = 0 THEN 0
  ELSE 10 * DecimalValue(SubSeq(s, 1, Len(s) - 1)) + DigitValue(s[Len(s)])

\* pd.to_numeric(errors='coerce') of one cell: a number stays, text that is a
\* plain unsigned integer parses, anything else becomes NaN.  Prices are in
\* money units (1 Euro = 100 * Fine).
ToNumeric(cell) ==
  CASE cell.k = "num" -> cell
    [] cell.k = "str" ->
         IF Len(Strip(cell.s)) > 0 /\ \A i \in 1..Len(Strip(cell.s)) : IsDigit(Strip(cell.s)[i])
         THEN Num(DecimalValue(Strip(cell.s)) * 100 * Fine)
         ELSE NaN
    [] OTHER -> NaN

\* line 38: pd.to_numeric(...).fillna(0)
CleanPrice(cell) ==
  LET n == ToNumeric(cell)
  IN  IF n.k = "nan" THEN Num(0) ELSE n

\* lines 17-39
load_data(file) ==
  IF ~file.ok
  THEN [isTuple |-> FALSE, df |-> EmptyDF, name_col |-> None, price_col |-> None]
  ELSE
    LET cols == [i \in 1..Len(file.cols) |-> Strip(file.cols[i])]
        pcol == DetectPriceCol(cols)
        ncol == NameCol(cols)
        rows == [r \in 1..Len(file.rows) |->
                   [c \in 1..Len(cols) |->
                      IF pcol # None /\ c = pcol
                      THEN CleanPrice(file.rows[r][c])
                      ELSE file.rows[r][c]]]
    IN  [isTuple |-> TRUE, df |-> [cols |-> cols, rows |-> rows],
         name_col |-> ncol, price_col |-> pcol]

NoCache == [full |-> FALSE, value |-> load_data(Unreadable)]

-----------------------------------------------------------------------------
(* Names, headers and the spreadsheets the model is run on *)

Tisch == <<"T","i","s","c","h">>
Stuhl == <<"S","t","u","h","l">>

HArtikel == <<"A","r","t","i","k","e","l">>
HPreis == <<"P","r","e","i","s">>
HProTag == <<" ","P","r","o"," ","T","a","g"," ">>
HProdukt == <<"P","r","o","d","u","k","t">>
HSet == <<" ","S","E","T"," ">>
HStueck == <<"€","/","S","T","Ü","C","K">>

HeaderPool == {HArtikel, HPreis, HProdukt, HSet, HStueck}

CellPool == {Num(10 * 100 * Fine), Num(-5 * 100 * Fine), Str(<<"n","/","a">>), NaN}

\* header rows whose stripped labels are pairwise different
HeaderSeqs(n) ==
  {h \in [1..n -> HeaderPool] :
     \A i, j \in 1..n : i # j => Strip(h[i]) # Strip(h[j])}

\* the row counts a sheet with n columns can have
RowCounts(n) == IF n = 0 THEN {0} ELSE 0..MaxRows

-----------------------------------------------------------------------------
(* The script run *)

RunReset ==
  /\ mwst_pct' = 19
  /\ discount_pct' = 0
  /\ search' = <<>>
  /\ display_df' = <<>>
  /\ selected' = <<>>
  /\ qty' = <<>>
  /\ package_lines' = <<>>
  /\ total_net' = 0
  /\ package_df' = <<>>
  /\ table' = <<>>
  /\ net_sum' = 0
  /\ discount_amount' = 0
  /\ net_after_discount' = 0
  /\ vat_amount' = 0
  /\ gross_total' = 0
  /\ markdown' = {}
  /\ export_df' = <<>>
  /\ offer_text' = <<>>
  /\ uploaded' = NoUpload
  /\ sidebar' = {}

Terminal == {"done", "stopped", "crashed"}

\* lines 41-52: a script run starts (first run of the process, or a rerun after
\* a widget change or a browser reload, which keeps the cache)
StartRun ==
  /\ pc \in {"start"} \cup Terminal
  /\ LET res == IF cache.full THEN cache.value ELSE load_data(disk[LoadPath])
         d == IF res.isTuple THEN res.df ELSE EmptyDF
     IN  /\ cache' = [full |-> TRUE, value |-> res]
         /\ data_load' = res
         /\ df' = d
         /\ name_col' = IF res.isTuple THEN res.name_col ELSE None
         /\ price_col' = IF res.isTuple THEN res.price_col ELSE None
         /\ notices' = (IF res.isTuple THEN {} ELSE {"load_error"})
                         \cup (IF DfEmpty(d) THEN {"no_data_warning"} ELSE {})
         /\ pc' = IF DfEmpty(d) THEN "stopped" ELSE "sidebar"
  /\ RunReset
  /\ UNCHANGED <<disk, mntWritable, writerHasSave>>

InitRun ==
  /\ cache = NoCache
  /\ pc = "start"
  /\ data_load = load_data(Unreadable)
  /\ df = EmptyDF
  /\ name_col = None
  /\ price_col = None
  /\ mwst_pct = 19
  /\ discount_pct = 0
  /\ search = <<>>
  /\ display_df = <<>>
  /\ selected = <<>>
  /\ qty = <<>>
  /\ package_lines = <<>>
  /\ total_net = 0
  /\ package_df = <<>>
  /\ table = <<>>
  /\ net_sum = 0
  /\ discount_amount = 0
  /\ net_after_discount = 0
  /\ vat_amount = 0
  /\ gross_total = 0
  /\ markdown = {}
  /\ export_df = <<>>
  /\ offer_text = <<>>
  /\ uploaded = NoUpload
  /\ notices = {}
  /\ sidebar = {}

-----------------------------------------------------------------------------
(* Sidebar, catalog table, selection *)

MwstOptions == {0, 7, 19}

\* st.sidebar.number_input(min 0.0, max 100.0, step 0.5), in half percents:
\* 0 %, 0.5 %, 10 %, 100 %
DiscountInputs == {0, 1, 10 * HalfSteps, PctDen * HalfSteps}

SearchPool == {<<>>, <<"T","I">>}

\* line 57
ApplyVat(mwst) == mwst # 0

\* lines 56-58
Sidebar ==
  /\ pc = "sidebar"
  /\ mwst_pct' \in MwstOptions
  /\ discount_pct' \in DiscountInputs
  /\ pc' = "display"
  /\ UNCHANGED <<disk, cache, mntWritable, writerHasSave, data_load, df, name_col,
                 price_col, search, display_df, selected, qty, package_lines,
                 total_net, package_df, table, net_sum, discount_amount,
                 net_after_discount, vat_amount, gross_total, markdown, export_df,
                 offer_text, uploaded, notices, sidebar>>

\* Series.str exists only for a column that holds text
HasStrAccessor(d, col) == \E r \in 1..Len(d.rows) : d.rows[r][col].k = "str"

\* line 66: str.contains(search, case=False, na=False) of one cell
NameMatches(cell, needle) ==
  cell.k = "str" /\ Contains(Lower(cell.s), Lower(needle))

RECURSIVE FilterRows(_, _, _)
FilterRows(rows, col, needle) ==
  IF Len(rows) = 0 THEN <<>>
  ELSE (IF NameMatches(Head(rows)[col], needle) THEN <<Head(rows)>> ELSE <<>>)
         \o FilterRows(Tail(rows), col, needle)

\* lines 64-72
Display ==
  /\ pc = "display"
  /\ \E s \in SearchPool :
       /\ search' = s
       /\ LET searchFails == Len(s) > 0 /\ ~HasStrAccessor(df, name_col)  \* AttributeError, line 66
              filtered == IF Len(s) > 0 /\ ~searchFails
                          THEN FilterRows(df.rows, name_col, s) ELSE df.rows
              keyFails == price_col = None                                  \* KeyError, line 71
          IN  IF searchFails \/ keyFails
              THEN /\ pc' = "crashed"
                   /\ display_df' = <<>>
              ELSE /\ pc' = "select"
                   /\ display_df' = [r \in 1..Len(filtered) |->
                                       [Artikel |-> filtered[r][name_col],
                                        Preis |-> filtered[r][price_col]]]
  /\ UNCHANGED <<disk, cache, mntWritable, writerHasSave, data_load, df, name_col,
                 price_col, mwst_pct, discount_pct, selected, qty, package_lines,
                 total_net, package_df, table, net_sum, discount_amount,
                 net_after_discount, vat_amount, gross_total, markdown, export_df,
                 offer_text, uploaded, notices, sidebar>>

\* line 76: df[name_col].tolist()
Options(d, col) == {d.rows[r][col] : r \in 1..Len(d.rows)}

\* the values st.multiselect can return: the chosen options, in the order chosen
Selections(opts) ==
  UNION {{q \in [1..n -> opts] : \A i, j \in 1..n : i # j => q[i] # q[j]}
           : n \in 0..Cardinality(opts)}

\* line 89: df[df[name_col] == art].iloc[0]
RowOf(d, col, art) == d.rows[Min({r \in 1..Len(d.rows) : d.rows[r][col] = art})]

\* line 92
PriceOf(row, pcol) == IF pcol # None THEN row[pcol].v ELSE 0

\* line 93
LineNetto(q, price) == q * price

RECURSIVE SumNetto(_)
SumNetto(lines) ==
  IF Len(lines) = 0 THEN 0 ELSE Head(lines).ZeileNetto + SumNetto(Tail(lines))

\* lines 76-95
Select ==
  /\ pc = "select"
  /\ \E sel \in Selections(Options(df, name_col)) :
       /\ selected' = sel
       /\ IF Len(sel) = 0
          THEN /\ notices' = notices \cup {"select_info"}
               /\ qty' = <<>>
               /\ package_lines' = <<>>
               /\ total_net' = 0
               /\ pc' = "upload"
          ELSE \E qs \in [1..Len(sel) -> 0..MaxQty] :
               LET lines == [i \in 1..Len(sel) |->
                               LET price == PriceOf(RowOf(df, name_col, sel[i]), price_col)
                               IN  [Artikel |-> sel[i], Menge |-> qs[i],
                                    Einzelpreis |-> price,
                                    ZeileNetto |-> LineNetto(qs[i], price)]]
               IN  /\ qty' = qs
                   /\ package_lines' = lines
                   /\ total_net' = SumNetto(lines)
                   /\ notices' = notices
                   /\ pc' = "summary"
  /\ UNCHANGED <<disk, cache, mntWritable, writerHasSave, data_load, df, name_col,
                 price_col, mwst_pct, discount_pct, search, display_df, package_df,
                 table, net_sum, discount_amount, net_after_discount, vat_amount,
                 gross_total, markdown, export_df, offer_text, uploaded, sidebar>>

-----------------------------------------------------------------------------
(* Package summary, export, offer text *)

\* "{:.2f}".format(x): the amount in whole cents, ties to even
Fmt2(x) ==
  LET q == x \div Fine
      r == x % Fine
  IN  IF 2 * r < Fine THEN q
      ELSE IF 2 * r > Fine THEN q + 1
      ELSE IF q % 2 = 0 THEN q ELSE q + 1

\* the filter keeps every line with a quantity >= 0
KeepLine_NonNegative(line) == line.Menge >= 0

\* line 101
KeepLine(line) == line.Menge > 0

RECURSIVE FilterLines(_)
FilterLines(lines) ==
  IF Len(lines) = 0 THEN <<>>
  ELSE (IF KeepLine(Head(lines)) THEN <<Head(lines)>> ELSE <<>>)
         \o FilterLines(Tail(lines))

\* line 109: net_sum * (discount_pct/100.0), discount_pct in half percents.
\* Every net amount is a multiple of Fine, so dividing first is exact.
DiscountAmount(net, dpct) == (net \div (PctDen * HalfSteps)) * dpct

\* the discount added instead of subtracted
NetAfterDiscount_Added(net, disc) == net + disc

\* line 110
NetAfterDiscount(net, disc) == net - disc

\* line 111; a net amount after discount is a multiple of PctDen
VatAmount(nad, mwst) == IF ApplyVat(mwst) THEN (nad \div PctDen) * mwst ELSE 0

\* line 112
GrossTotal(nad, vat) == nad + vat

\* lines 114-119
SummaryLines(net, dpct, disc, mwst, vat, gross) ==
  {[label |-> "Zwischensumme (Netto)", cents |-> Fmt2(net)],
   [label |-> "Gesamtbetrag (Brutto)", cents |-> Fmt2(gross)]}
    \cup (IF dpct > 0 THEN {[label |-> "Rabatt", cents |-> Fmt2(disc)]} ELSE {})
    \cup (IF ApplyVat(mwst) THEN {[label |-> "MwSt", cents |-> Fmt2(vat)]} ELSE {})

\* lines 98-119
Summary ==
  /\ pc = "summary"
  /\ LET pdf == FilterLines(package_lines)
         net == SumNetto(pdf)
         disc == DiscountAmount(net, discount_pct)
         nad == NetAfterDiscount(net, disc)
         vat == VatAmount(nad, mwst_pct)
         gross == GrossTotal(nad, vat)
     IN  /\ package_df' = pdf
         /\ IF Len(pdf) = 0
            THEN /\ notices' = notices \cup {"no_lines_warning"}
                 /\ pc' = "upload"
                 /\ UNCHANGED <<table, net_sum, discount_amount, net_after_discount,
                                vat_amount, gross_total, markdown>>
            ELSE /\ table' = [i \in 1..Len(pdf) |->
                                [Artikel |-> pdf[i].Artikel, Menge |-> pdf[i].Menge,
                                 Preis |-> Fmt2(pdf[i].Einzelpreis),
                                 Zeile |-> Fmt2(pdf[i].ZeileNetto)]]
                 /\ net_sum' = net
                 /\ discount_amount' = disc
                 /\ net_after_discount' = nad
                 /\ vat_amount' = vat
                 /\ gross_total' = gross
                 /\ markdown' = SummaryLines(net, discount_pct, disc, mwst_pct, vat, gross)
                 /\ notices' = notices
                 /\ pc' = "export"
  /\ UNCHANGED <<disk, cache, mntWritable, writerHasSave, data_load, df, name_col,
                 price_col, mwst_pct, discount_pct, search, display_df, selected,
                 qty, package_lines, total_net, export_df, offer_text, uploaded,
                 sidebar>>

\* lines 122-138.  ExcelWriter.save() was removed in pandas 2.0: where it is
\* missing, to_excel_bytes raises AttributeError and the run ends at line 138.
\* The file name (a timestamp) is not modelled.
Export ==
  /\ pc = "export"
  /\ export_df' = [i \in 1..Len(package_df) |->
                     [Artikel |-> package_df[i].Artikel,
                      Menge |-> package_df[i].Menge,
                      Einzelpreis |-> package_df[i].Einzelpreis,
                      ZeileNetto |-> package_df[i].ZeileNetto,
                      Rabatt |-> discount_pct,
                      MwSt |-> mwst_pct,
                      NettoSumme |-> net_sum,
                      NettoNachRabatt |-> net_after_discount,
                      MwStBetrag |-> vat_amount,
                      BruttoSumme |-> gross_total]]
  /\ pc' = IF writerHasSave THEN "offer" ELSE "crashed"
  /\ UNCHANGED <<disk, cache, mntWritable, writerHasSave, data_load, df, name_col,
                 price_col, mwst_pct, discount_pct, search, display_df, selected,
                 qty, package_lines, total_net, package_df, table, net_sum,
                 discount_amount, net_after_discount, vat_amount, gross_total,
                 markdown, offer_text, uploaded, notices, sidebar>>

OfferLine(kind, artikel, menge, a, b) ==
  [kind |-> kind, Artikel |-> artikel, Menge |-> menge, a |-> a, b |-> b]

\* lines 141-157
Offer ==
  /\ pc = "offer"
  /\ offer_text' =
       [i \in 1..Len(package_df) |->
          OfferLine("item", package_df[i].Artikel, package_df[i].Menge,
                    Fmt2(package_df[i].Einzelpreis), Fmt2(package_df[i].ZeileNetto))]
       \o <<OfferLine("Zwischensumme", NaN, 0, Fmt2(net_sum), 0)>>
       \o (IF discount_pct > 0
           THEN <<OfferLine("Rabatt", NaN, 0, Fmt2(discount_amount), discount_pct)>>
           ELSE <<>>)
       \o (IF ApplyVat(mwst_pct)
           THEN <<OfferLine("MwSt", NaN, 0, Fmt2(vat_amount), mwst_pct)>>
           ELSE <<>>)
       \o <<OfferLine("Gesamt (Brutto)", NaN, 0, Fmt2(gross_total), 0)>>
  /\ pc' = "upload"
  /\ UNCHANGED <<disk, cache, mntWritable, writerHasSave, data_load, df, name_col,
                 price_col, mwst_pct, discount_pct, search, display_df, selected,
                 qty, package_lines, total_net, package_df, table, net_sum,
                 discount_amount, net_after_discount, vat_amount, gross_total,
                 markdown, export_df, uploaded, notices, sidebar>>

-----------------------------------------------------------------------------
(* Admin upload, restart *)

ScenarioSheet ==
  Sheet(<<HArtikel, HPreis>>,
        << <<Str(Tisch), Num(10 * 100 * Fine)>>, <<Str(Stuhl), Num(5 * 100 * Fine)>> >>)
MessySheet ==
  Sheet(<<HArtikel, HProTag>>,
        << <<Str(Tisch), Num(-5 * 100 * Fine)>>, <<Str(Stuhl), Str(<<"n","/","a">>)>> >>)
TextSheet ==
  Sheet(<<HArtikel, HStueck>>, << <<Str(Tisch), Str(<<"7">>)>>, <<Str(Stuhl), NaN>> >>)
ProduktSheet ==
  Sheet(<<HProdukt, HPreis>>, << <<Str(Tisch), Num(10 * 100 * Fine)>> >>)
OneColSheet == Sheet(<<HArtikel>>, << <<Str(Tisch)>> >>)
HeadersOnly == Sheet(<<HArtikel, HPreis>>, <<>>)

MainFiles == {ScenarioSheet, MessySheet, TextSheet, ProduktSheet, OneColSheet,
              HeadersOnly, Unreadable}
UploadPool == {MessySheet, Unreadable}

\* lines 160-172
AdminUpload ==
  /\ pc = "upload"
  /\ \E u \in {NoUpload} \cup {Upload(f) : f \in UploadPool} :
       /\ uploaded' = u
       /\ IF ~u.present
          THEN /\ sidebar' = {}
               /\ disk' = disk
          ELSE IF ~u.file.ok                       \* pd.read_excel raises, line 165
          THEN /\ sidebar' = {"error"}
               /\ disk' = disk
          ELSE IF ~mntWritable                     \* open() raises, line 168
          THEN /\ sidebar' = {"success", "error"}
               /\ disk' = disk
          ELSE /\ sidebar' = {"success", "saved"}
               /\ disk' = [disk EXCEPT ![UploadPath] = u.file]
  /\ pc' = "done"
  /\ UNCHANGED <<cache, mntWritable, writerHasSave, data_load, df, name_col,
                 price_col, mwst_pct, discount_pct, search, display_df, selected,
                 qty, package_lines, total_net, package_df, table, net_sum,
                 discount_amount, net_after_discount, vat_amount, gross_total,
                 markdown, export_df, offer_text, notices>>

\* the app is stopped and started again: the cache is gone, the disk stays
Restart ==
  /\ pc \in Terminal
  /\ cache' = NoCache
  /\ pc' = "start"
  /\ data_load' = load_data(Unreadable)
  /\ df' = EmptyDF
  /\ name_col' = None
  /\ price_col' = None
  /\ notices' = {}
  /\ RunReset
  /\ UNCHANGED <<disk, mntWritable, writerHasSave>>

Init ==
  /\ disk \in {[p \in {LoadPath, UploadPath} |-> IF p = LoadPath THEN f ELSE Unreadable]
                 : f \in MainFiles}
  /\ mntWritable \in BOOLEAN
  /\ writerHasSave \in BOOLEAN
  /\ InitRun

Next ==
  \/ StartRun
  \/ Sidebar
  \/ Display
  \/ Select
  \/ Summary
  \/ Export
  \/ Offer
  \/ AdminUpload
  \/ Restart

Spec == Init /\ [][Next]_vars

\* load_data over every small spreadsheet
\* A row of a generated sheet: one cell for the first column and one cell
\* repeated in every other column.
RowOfCells(n, first, rest) == [c \in 1..n |-> IF c = 1 THEN first ELSE rest]

InitLoad ==
  /\ \/ \E n \in 0..MaxCols : \E h \in HeaderSeqs(n) : \E m \in RowCounts(n) :
          \E first \in [1..m -> CellPool \cup {Str(Tisch)}] : \E rest \in [1..m -> CellPool] :
            disk = [p \in {LoadPath, UploadPath} |->
                      IF p = LoadPath
                      THEN Sheet(h, [r \in 1..m |-> RowOfCells(n, first[r], rest[r])])
                      ELSE Unreadable]
     \/ disk = [p \in {LoadPath, UploadPath} |-> Unreadable]
  /\ mntWritable = TRUE
  /\ writerHasSave = TRUE
  /\ InitRun

NextLoad == StartRun

SpecLoad == InitLoad /\ [][NextLoad]_vars

-----------------------------------------------------------------------------
(* Properties *)

\* the stripped headers of the catalog file
FileCols == [i \in 1..Len(disk[LoadPath].cols) |-> Strip(disk[LoadPath].cols[i])]

\* a package summary has been computed in this run
Computed == markdown # {}

\* net value of the selected lines with a positive quantity, from the catalog
RECURSIVE ExpectedNet(_)
ExpectedNet(i) ==
  IF i = 0 THEN 0
  ELSE ExpectedNet(i - 1)
         + (IF qty[i] > 0
            THEN qty[i] * RowOf(df, name_col, selected[i])[price_col].v
            ELSE 0)

ArticlesOf(rows) == {rows[i].Artikel : i \in 1..Len(rows)}

\* C1: in every computed package, netSubtotal is the sum of quantity x unit price
\* over the lines with quantity > 0, and grossTotal >= netAfterDiscount >= 0.
C1_TotalsNonNegative ==
  Computed =>
    /\ net_sum = ExpectedNet(Len(selected))
    /\ gross_total >= net_after_discount
    /\ net_after_discount >= 0

\* C2: a selected article with quantity 0 is in neither the summary table, nor
\* the export rows, nor the item lines of the offer text, and adds nothing to
\* netSubtotal.
C2_ZeroQuantityExcluded ==
  /\ \A i \in 1..Len(qty) :
       qty[i] = 0 =>
         /\ selected[i] \notin ArticlesOf(table)
         /\ selected[i] \notin ArticlesOf(export_df)
         /\ selected[i] \notin ArticlesOf(SelectSeq(offer_text, LAMBDA l : l.kind = "item"))
  /\ Computed => net_sum = ExpectedNet(Len(selected))

C2_Witness ==
  /\ pc = "upload"
  /\ Len(offer_text) > 0
  /\ Len(export_df) > 0
  /\ \E i \in 1..Len(qty) : qty[i] = 0
  /\ \E i \in 1..Len(qty) : qty[i] > 0

\* C3: every unit price of a loaded catalog is a number >= 0, and a price cell
\* that is not numeric becomes 0.
C3_PricesNonNegative ==
  (pc # "start" /\ data_load.isTuple /\ data_load.price_col # None) =>
    \A r \in 1..Len(data_load.df.rows) :
      LET cell == data_load.df.rows[r][data_load.price_col]
          raw == disk[LoadPath].rows[r][data_load.price_col]
      IN  /\ cell.k = "num"
          /\ cell.v >= 0
          /\ (raw.k # "num" => cell.v = 0)

\* C4: when reading the catalog raises, load_data returns an empty catalog, the
\* run shows the warning and stops; with an empty catalog no run gets to the
\* selection, the quantities, a summary or an export.
C4_EmptyCatalogHalts ==
  /\ (pc # "start" /\ ~disk[LoadPath].ok) => (~data_load.isTuple /\ df = EmptyDF)
  /\ (pc # "start" /\ (Len(df.cols) = 0 \/ Len(df.rows) = 0)) =>
       /\ pc = "stopped"
       /\ "no_data_warning" \in notices
       /\ display_df = <<>> /\ selected = <<>> /\ qty = <<>>
       /\ package_lines = <<>> /\ package_df = <<>> /\ table = <<>>
       /\ markdown = {} /\ export_df = <<>> /\ offer_text = <<>>
       /\ ~uploaded.present

C4_Witness ==
  pc = "stopped" /\ ~disk[LoadPath].ok /\ ~data_load.isTuple
    /\ "no_data_warning" \in notices

\* C5: the upload step changes neither the catalog file load_data reads, nor
\* the cached catalog, nor the catalog of the current run, and an upload that
\* cannot be parsed puts an error into the sidebar.
C5_UploadLeavesCatalog ==
  [][pc = "upload" =>
       /\ disk'[LoadPath] = disk[LoadPath]
       /\ cache' = cache
       /\ data_load' = data_load
       /\ <<df, name_col, price_col>>' = <<df, name_col, price_col>>
       /\ (uploaded'.present /\ ~uploaded'.file.ok => "error" \in sidebar')]_vars

C5_Witness ==
  /\ pc = "done"
  /\ uploaded.present /\ uploaded.file.ok
  /\ disk[UploadPath] = uploaded.file
  /\ data_load # load_data(uploaded.file)

\* C6: the first run after a successful upload and a restart of the app loads
\* the uploaded spreadsheet's catalog.
C6_UploadActiveAfterRestart ==
  [][(pc = "start" /\ disk[UploadPath].ok /\ pc' # "start") =>
       data_load' = load_data(disk[UploadPath])]_vars

\* C7: the price column is the leftmost column whose lower-cased stripped header
\* contains 'pro', 'stück', 'set' or '€'; without such a header it is the last
\* column if there are at least two columns and there is none otherwise; the
\* name column is the first column.
C7_PriceColumnRule ==
  (pc # "start" /\ data_load.isTuple) =>
    LET hits == {i \in 1..Len(FileCols) :
                   \E k \in {<<"p","r","o">>, <<"s","t","ü","c","k">>,
                             <<"s","e","t">>, <<"€">>} :
                     Contains(Lower(FileCols[i]), k)}
    IN  /\ data_load.df.cols = FileCols
        /\ hits # {} => data_load.price_col = Min(hits)
        /\ (hits = {} /\ Len(FileCols) >= 2) => data_load.price_col = Len(FileCols)
        /\ (hits = {} /\ Len(FileCols) < 2) => data_load.price_col = None
        /\ Len(FileCols) > 0 => data_load.name_col = 1

C7_Witness ==
  /\ pc # "start" /\ data_load.isTuple
  /\ Len(FileCols) = 3
  /\ ~HasKeyword(FileCols[1]) /\ HasKeyword(FileCols[2]) /\ HasKeyword(FileCols[3])
  /\ data_load.price_col = 2

\* whole cents as money units
Cents(c) == c * Fine

QtyOf(art) == qty[CHOOSE i \in 1..Len(selected) : selected[i] = art]

\* scenario of the spec: Tisch 10.00 x 2 + Stuhl 5.00 x 3
TischStuhl ==
  /\ Computed
  /\ disk[LoadPath] = ScenarioSheet
  /\ Len(selected) = 2
  /\ QtyOf(Str(Tisch)) = 2
  /\ QtyOf(Str(Stuhl)) = 3

C8_Amounts ==
  Computed =>
    /\ discount_amount = (net_sum \div Fine) * discount_pct * PctDen
    /\ net_after_discount = net_sum - discount_amount
    /\ vat_amount = (net_after_discount \div PctDen) * mwst_pct
    /\ gross_total = net_after_discount + vat_amount

C8_Scenarios ==
  TischStuhl =>
    /\ net_sum = Cents(3500)
    /\ (discount_pct = 0 /\ mwst_pct = 19) =>
         (vat_amount = Cents(665) /\ gross_total = Cents(4165))
    /\ (discount_pct = 10 * HalfSteps /\ mwst_pct = 0) =>
         /\ discount_amount = Cents(350)
         /\ net_after_discount = Cents(3150)
         /\ vat_amount = 0
         /\ gross_total = Cents(3150)

\* C8 as stated: the discount, net-after-discount, VAT and gross formulas hold,
\* vatAmount is 0 exactly when vatPct = 0, and the two Tisch/Stuhl scenarios
\* give the stated amounts.
C8_VatZeroExactlyWhenOff ==
  /\ C8_Amounts
  /\ Computed => (vat_amount = 0 <=> mwst_pct = 0)
  /\ C8_Scenarios

\* C8 amended: the same formulas and scenarios; vatAmount is 0 whenever
\* vatPct = 0, and exactly when vatPct = 0 or netAfterDiscount = 0.
C8_VatZeroWhenOffOrNothingToTax ==
  /\ C8_Amounts
  /\ Computed => (mwst_pct = 0 => vat_amount = 0)
  /\ Computed => (vat_amount = 0 <=> (mwst_pct = 0 \/ net_after_discount = 0))
  /\ C8_Scenarios

C8_Witness ==
  /\ TischStuhl
  /\ discount_pct = 0 /\ mwst_pct = 19
  /\ vat_amount = Cents(665) /\ gross_total = Cents(4165)

\* C9: with at least two columns the price column is not the name column, and
\* the article names of the file are the article names of the catalog.
C9_PriceColumnIsNotNameColumn ==
  (pc # "start" /\ data_load.isTuple /\ Len(FileCols) >= 2) =>
    /\ data_load.price_col # data_load.name_col
    /\ \A r \in 1..Len(data_load.df.rows) :
         data_load.df.rows[r][data_load.name_col]
           = disk[LoadPath].rows[r][data_load.name_col]

\* C10: the success notice of an upload is shown only if the file was parsed
\* and written to the upload path, and never together with the error notice.
C10_UploadNoticesExclusive ==
  uploaded.present =>
    /\ "success" \in sidebar => (uploaded.file.ok /\ disk[UploadPath] = uploaded.file)
    /\ ~({"success", "error"} \subseteq sidebar)

====
